---------------------------- MODULE Spec2Model ----------------------------
(***************************************************************************)
(* State-machine model of src/src/main.cpp (evjrob/time-since): the timer  *)
(* hierarchy (ButtonTimer, GitHub/Bluesky/Weather polling timers) and the  *)
(* TimerDisplay controller driven by loop().                               *)
(*                                                                         *)
(* Time is the value of time(nullptr) in whole seconds.  A remote response *)
(* is a record of what the HTTP client and the JSON decoder report.  A     *)
(* timestamp string is the record of the fields strptime extracts from it  *)
(* (ok = FALSE when the string does not match the pattern); mktime is      *)
(* computed by the civil-calendar conversion, the time zone being UTC      *)
(* (configTime(0, 0, ...)).                                                *)
(***************************************************************************)
EXTENDS Integers, Sequences, FiniteSets, TLC

(***************************************************************************)
(* Bounds of the model.                                                    *)
(***************************************************************************)
\* number of long clock steps (one poll interval each) after boot
MaxIntervals == 1
\* seconds of drift the clock may gather on top of the long steps
MaxSkew == 1
\* longest duration, in seconds, of one blocking check attempt
MaxPollSecs == 1

(***************************************************************************)
(* Program constants.                                                      *)
(***************************************************************************)
timerCount == 4
GITHUB_POLL_INTERVAL == 300
BLUESKY_POLL_INTERVAL == 300
WEATHER_POLL_INTERVAL == 900
HTTP_CODE_OK == 200
MAX_USERNAME_LENGTH == 39
MAX_HANDLE_LENGTH == 253
GitHubUsernameLen == 6
BlueskyHandleLen == 18
GitHubUrlSize == 96
BlueskyUrlSize == 128
GitHubUrlFormatLen == 36
BlueskyUrlFormatLen == 89
HistoryWindowSecs == 30 * 24 * 60 * 60

HIGH == TRUE
LOW == FALSE

BUTTON == 0
GITHUB == 1
BLUESKY == 2
WEATHER == 3

TimerIds == 0 .. (timerCount - 1)
PollingIds == {GITHUB, BLUESKY, WEATHER}
FeedIds == {GITHUB, BLUESKY}

(***************************************************************************)
(* C integer arithmetic.                                                   *)
(***************************************************************************)
\* the remainder of C++'s int division (truncation toward zero), b > 0
CRem(a, b) == IF a >= 0 THEN a % b ELSE 0 - ((0 - a) % b)

\* conversion of an int to uint8_t
ToUint8(x) == x % 256

\* the quotient of C++'s int division (truncation toward zero), b > 0
CDiv(a, b) == IF a >= 0 THEN a \div b ELSE 0 - ((0 - a) \div b)

\* the largest int32_t
Int32Max == 2147483647

\* conversion to int32_t of the double a - b, for a >= 0 (the difference
\* is exact in a double): the difference when it is at most
\* Int32Max; otherwise the conversion is undefined, and the builds in use
\* wrap it modulo 2^32 or clamp it to Int32Max.  The wrapped value is
\* a - b - 2^32, computed without leaving the 32-bit range.
DiffToInt32(a, b) ==
    IF b >= a - Int32Max THEN {a - b}
    ELSE {((a - Int32Max) - 1) + ((0 - b) - Int32Max) - 1, Int32Max}

(***************************************************************************)
(* sprintf and the 16x2 character display.  A string is a sequence of      *)
(* characters; a row of the display is a string of LcdCols characters.     *)
(***************************************************************************)
LcdCols == 16

DigitChars == <<"0", "1", "2", "3", "4", "5", "6", "7", "8", "9">>

\* the number of decimal digits of n >= 0
NumDigits(n) ==
    IF \E d \in 1 .. 9 : n < 10^d
    THEN CHOOSE d \in 1 .. 9 : n < 10^d /\ (d = 1 \/ n >= 10^(d - 1))
    ELSE 10

\* "%d" of n >= 0
Dec(n) ==
    LET d == NumDigits(n)
    IN  [k \in 1 .. d |-> DigitChars[((n \div 10^(d - k)) % 10) + 1]]

\* "%02d": at least two characters, zero-padded, the sign counted
Pad2(n) ==
    IF n < 0 THEN <<"-">> \o Dec(0 - n)
    ELSE IF n < 10 THEN <<"0">> \o Dec(n)
    ELSE Dec(n)

\* TimerDisplay::updateDisplay: sprintf(timeStr, "%02d:%02d:%02d", ...)
formatElapsed(seconds) ==
    LET hours == CDiv(seconds, 3600)
        minutes == CDiv(CRem(seconds, 3600), 60)
        secs == CRem(seconds, 60)
    IN  Pad2(hours) \o <<":">> \o Pad2(minutes) \o <<":">> \o Pad2(secs)

\* lcd.print("                ")
BlankRow == [k \in 1 .. LcdCols |-> " "]

\* lcd.setCursor(col, row); lcd.print(str): the row afterwards
PrintAt(row, col, str) ==
    [k \in 1 .. LcdCols |->
       IF k > col /\ k <= col + Len(str) THEN str[k - col] ELSE row[k]]

\* max(0, 16 - timeStrLen)
startPos(str) == IF LcdCols - Len(str) > 0 THEN LcdCols - Len(str) ELSE 0

\* the display: the label on the top row, the characters of the bottom row
Lcd(top, bottom) == [top |-> top, bottom |-> bottom]

(***************************************************************************)
(* strptime / mktime.                                                      *)
(***************************************************************************)
Stamp(y, mo, d, h, mi, s) ==
    [ok |-> TRUE, year |-> y, mon |-> mo, day |-> d,
     hour |-> h, min |-> mi, sec |-> s]

\* a string that does not match "%Y-%m-%dT%H:%M:%S": strptime returns NULL
BadStamp == [ok |-> FALSE, year |-> 0, mon |-> 0, day |-> 0,
             hour |-> 0, min |-> 0, sec |-> 0]

\* days from 1970-01-01 to the civil date y-m-d (proleptic Gregorian)
DaysFromCivil(y, m, d) ==
    LET yy  == IF m <= 2 THEN y - 1 ELSE y
        era == yy \div 400
        yoe == yy - era * 400
        mp  == IF m > 2 THEN m - 3 ELSE m + 9
        doy == (153 * mp + 2) \div 5 + d - 1
        doe == yoe * 365 + yoe \div 4 - yoe \div 100 + doy
    IN  era * 146097 + doe - 719468

\* mktime(&tm) with TZ = UTC
MkTime(tm) ==
    ((DaysFromCivil(tm.year, tm.mon, tm.day) * 24 + tm.hour) * 60 + tm.min) * 60
        + tm.sec

\* the wall clock when setup() reads it (after initTime)
BootStamp == Stamp(2024, 1, 1, 12, 0, 0)
BootTime == MkTime(BootStamp)

\* timestamps a feed can carry: one before boot, one after, one malformed,
\* and one the author of a record dated more than 2^31 seconds before boot
OldStamp == Stamp(2023, 12, 31, 23, 59, 59)
NewStamp == Stamp(2024, 1, 1, 12, 7, 30)
AncientStamp == Stamp(1950, 1, 1, 0, 0, 0)
FeedStamps == {OldStamp, NewStamp, BadStamp, AncientStamp}

(***************************************************************************)
(* Remote responses.                                                       *)
(***************************************************************************)
\* one element of the feed array: whether it has the timestamp field
Item(has, st) == [has |-> has, stamp |-> st]

FeedBodies ==
    {<<>>} \cup {<<Item(FALSE, BadStamp), Item(TRUE, NewStamp)>>}
           \cup {<<Item(TRUE, s)>> : s \in FeedStamps}
           \cup {<<Item(TRUE, OldStamp), Item(TRUE, NewStamp)>>,
                 <<Item(TRUE, NewStamp), Item(TRUE, OldStamp)>>}

Temps == {-1, 0, 1}

Resp(w, b, c, j, it, ht, t) ==
    [wifi |-> w, begin |-> b, code |-> c, json |-> j, items |-> it,
     hasTemp |-> ht, temp |-> t]

\* what one check attempt of a feed poller can meet
FeedResponses ==
    {Resp(FALSE, TRUE, HTTP_CODE_OK, TRUE, <<Item(TRUE, NewStamp)>>, FALSE, 0),
     Resp(TRUE, FALSE, HTTP_CODE_OK, TRUE, <<Item(TRUE, NewStamp)>>, FALSE, 0),
     Resp(TRUE, TRUE, 404, TRUE, <<Item(TRUE, NewStamp)>>, FALSE, 0),
     Resp(TRUE, TRUE, -1, TRUE, <<Item(TRUE, NewStamp)>>, FALSE, 0),
     Resp(TRUE, TRUE, HTTP_CODE_OK, FALSE, <<Item(TRUE, NewStamp)>>, FALSE, 0)}
    \cup {Resp(TRUE, TRUE, HTTP_CODE_OK, TRUE, b, FALSE, 0) : b \in FeedBodies}

\* what one periodic check of the threshold poller can meet
WeatherResponses ==
    {Resp(FALSE, TRUE, HTTP_CODE_OK, TRUE, <<>>, TRUE, 1),
     Resp(TRUE, FALSE, HTTP_CODE_OK, TRUE, <<>>, TRUE, 1),
     Resp(TRUE, TRUE, 500, TRUE, <<>>, TRUE, 1),
     Resp(TRUE, TRUE, HTTP_CODE_OK, FALSE, <<>>, TRUE, 1),
     Resp(TRUE, TRUE, HTTP_CODE_OK, TRUE, <<>>, FALSE, 0)}
    \cup {Resp(TRUE, TRUE, HTTP_CODE_OK, TRUE, <<>>, TRUE, t) : t \in Temps}

NoResp == Resp(FALSE, FALSE, 0, FALSE, <<>>, FALSE, 0)

\* the request was issued and got no answer: GET returns a negative code
Unreachable == Resp(TRUE, TRUE, -1, FALSE, <<>>, FALSE, 0)

\* one hourly sample of the historical series
Sample(st, t) == [stamp |-> st, temp |-> t]

HistOld == Stamp(2023, 12, 7, 12, 0, 0)
HistNew == Stamp(2023, 12, 27, 12, 0, 0)

HistSeries ==
    {<<>>,
     <<Sample(HistOld, -1), Sample(HistNew, 0)>>,
     <<Sample(HistOld, 1), Sample(HistNew, -1)>>,
     <<Sample(HistOld, 1), Sample(HistNew, 1)>>}

Hist(b, c, j, s) == [begin |-> b, code |-> c, json |-> j, series |-> s]

HistResponses ==
    {Hist(FALSE, HTTP_CODE_OK, TRUE, <<>>),
     Hist(TRUE, 500, TRUE, <<>>),
     Hist(TRUE, HTTP_CODE_OK, FALSE, <<>>)}
    \cup {Hist(TRUE, HTTP_CODE_OK, TRUE, s) : s \in HistSeries}

HistUnreachable == Hist(TRUE, -1, FALSE, <<>>)

NoHist == Hist(FALSE, 0, FALSE, <<>>)

(***************************************************************************)
(* State.                                                                  *)
(***************************************************************************)
VARIABLES
    clock,            \* time(nullptr): the wall clock, in seconds
    pc,               \* position of the control thread in setup() / update()
    now,              \* the local `now` of setup() and of loop()
    lastTriggerTime,  \* Timer::lastTriggerTime of each timer
    lastPollTime,     \* PollingTimer::lastPollTime of each polling timer
    currentIndex,     \* TimerDisplay::currentIndex (uint8_t)
    lastButtonState,  \* the static local of TimerDisplay::checkButton
    att,              \* what the step just taken called, met and returned
    identity,         \* githubUser / handle: the string given, the string held
    since,            \* history: when each poller was built or last succeeded
    sample,           \* the pin levels the step just taken read
    retrying,         \* history: the last tick's due check of this timer failed
    downHeld,         \* history: DOWN was read LOW by the previous tick
    lastName,         \* TimerDisplay::lastName
    lastSeconds,      \* TimerDisplay::lastSeconds
    lcd,              \* what the display shows
    upstream,         \* environment: the remote service that answers in this run
    pins              \* environment: the levels of the button pins, where the
                      \* specification tracks them between the reads

vars == <<clock, pc, now, lastTriggerTime, lastPollTime, currentIndex,
          lastButtonState, att, identity, since, sample, retrying, downHeld, lastName,
          lastSeconds, lcd, upstream, pins>>

displayVars == <<lastName, lastSeconds, lcd>>

timerVars == <<lastTriggerTime, lastPollTime, since, retrying>>

\* the levels read from the action, DOWN and UP pins; a pin not read is HIGH
\* the identity string of a feed poller, by length: the one the constructor
\* was given and the one its buffer holds (NoString before anything is copied)
NoString == 0 - 1
Identity(given, held) == [given |-> given, held |-> held]
NoIdentity == Identity(NoString, NoString)

Sampled(a, d, u) == [action |-> a, down |-> d, up |-> u]
NoSample == Sampled(HIGH, HIGH, HIGH)

\* the timers that exist: those setup() has constructed so far
Constructed ==
    CASE pc = "new0" -> {}
      [] pc = "new1" -> {BUTTON}
      [] pc = "new2" -> {BUTTON, GITHUB}
      [] pc = "new3" -> {BUTTON, GITHUB, BLUESKY}
      [] pc = "aborted" -> {}
      [] pc = "unitNew" -> {}
      [] pc = "unit" -> {currentIndex}
      [] pc = "idNew" -> {}
      [] pc = "id" -> {currentIndex}
      [] OTHER -> TimerIds

Att(op, t, made, resp, ret, trig, done) ==
    [op |-> op, timer |-> t, made |-> made, resp |-> resp, ret |-> ret,
     trig |-> trig, done |-> done, retry |-> FALSE, hist |-> NoHist,
     seconds |-> 0, drew |-> {}, url |-> 0, pending |-> FALSE,
     resume |-> "none", pulse |-> "none"]

NoAtt == Att("none", 0, FALSE, NoResp, FALSE, 0, 0)

(***************************************************************************)
(* Timer hierarchy: the pure parts.                                        *)
(***************************************************************************)
isPollable(i) == i \in PollingIds

\* Timer::getDisplayName, with the names given in setup()
getDisplayName(i) ==
    CASE i = BUTTON -> "Last drank water"
      [] i = GITHUB -> "Last GitHub push"
      [] i = BLUESKY -> "Last Bsky post"
      [] i = WEATHER -> "Last above 0\\xDFC"

pollingInterval(i) ==
    CASE i = GITHUB -> GITHUB_POLL_INTERVAL
      [] i = BLUESKY -> BLUESKY_POLL_INTERVAL
      [] i = WEATHER -> WEATHER_POLL_INTERVAL

shouldPoll_strict(i, currentTime) ==
    currentTime - lastPollTime[i] > pollingInterval(i)

\* PollingTimer::shouldPoll
shouldPoll(i, currentTime) ==
    currentTime - lastPollTime[i] >= pollingInterval(i)

PollFail == [success |-> FALSE, triggered |-> FALSE, at |-> 0]

\* the newest-first feed read at its last element instead of its first
FeedLast(resp) ==
    IF resp.wifi /\ resp.begin /\ resp.code = HTTP_CODE_OK /\ resp.json
       /\ Len(resp.items) > 0
       /\ resp.items[Len(resp.items)].has /\ resp.items[Len(resp.items)].stamp.ok
    THEN [success |-> TRUE, triggered |-> TRUE,
          at |-> MkTime(resp.items[Len(resp.items)].stamp)]
    ELSE PollFail

GitHubPollImpl_last(resp) == FeedLast(resp)

\* GitHubPollingTimer::pollImpl: the result, and the time handed to trigger()
GitHubPollImpl(resp) ==
    IF ~resp.wifi THEN PollFail
    ELSE IF ~resp.begin THEN PollFail
    ELSE IF resp.code = HTTP_CODE_OK
            /\ resp.json /\ Len(resp.items) > 0 /\ resp.items[1].has
            /\ resp.items[1].stamp.ok
         THEN [success |-> TRUE, triggered |-> TRUE,
               at |-> MkTime(resp.items[1].stamp)]
         ELSE PollFail

\* BlueskyPollingTimer::pollImpl
BlueskyPollImpl(resp) ==
    IF ~resp.wifi THEN PollFail
    ELSE IF ~resp.begin THEN PollFail
    ELSE IF resp.code = HTTP_CODE_OK
            /\ resp.json /\ Len(resp.items) > 0 /\ resp.items[1].has
            /\ resp.items[1].stamp.ok
         THEN [success |-> TRUE, triggered |-> TRUE,
               at |-> MkTime(resp.items[1].stamp)]
         ELSE PollFail

WeatherPollImpl_geq(resp, tTrig) ==
    IF resp.wifi /\ resp.begin /\ resp.code = HTTP_CODE_OK /\ resp.json
       /\ resp.hasTemp
    THEN [success |-> TRUE, triggered |-> resp.temp >= 0, at |-> tTrig]
    ELSE PollFail

\* WeatherPollingTimer::pollImpl; tTrig is time(nullptr) read at trigger()
WeatherPollImpl(resp, tTrig) ==
    IF ~resp.wifi THEN PollFail
    ELSE IF ~resp.begin THEN PollFail
    ELSE IF resp.code = HTTP_CODE_OK /\ resp.json /\ resp.hasTemp
         THEN [success |-> TRUE, triggered |-> resp.temp > 0, at |-> tTrig]
         ELSE PollFail

\* the virtual call pollImpl() of timer i
pollImpl(i, resp, tTrig) ==
    CASE i = GITHUB -> GitHubPollImpl(resp)
      [] i = BLUESKY -> BlueskyPollImpl(resp)
      [] i = WEATHER -> WeatherPollImpl(resp, tTrig)

\* Timer::timeSince: the values the call can return
timeSince(anchor, currentTime) == DiffToInt32(currentTime, anchor)

trigger_cleared(triggerTime) == 0

\* Timer::trigger, as the new value of the anchor
trigger(triggerTime) == triggerTime

poll_callerNow(i, anchor, pollTime, resp, tTrig, tDone) ==
    LET r == pollImpl(i, resp, tTrig)
    IN  [success |-> r.success,
         anchor |-> IF r.triggered THEN trigger(r.at) ELSE anchor,
         pollTime |-> IF r.success THEN now ELSE pollTime]

poll_always(i, anchor, pollTime, resp, tTrig, tDone) ==
    LET r == pollImpl(i, resp, tTrig)
    IN  [success |-> r.success,
         anchor |-> IF r.triggered THEN trigger(r.at) ELSE anchor,
         pollTime |-> tDone]

\* PollingTimer::poll on a timer whose fields are anchor and pollTime;
\* tDone is time(nullptr) read after pollImpl has returned
poll(i, anchor, pollTime, resp, tTrig, tDone) ==
    LET r == pollImpl(i, resp, tTrig)
    IN  [success |-> r.success,
         anchor |-> IF r.triggered THEN trigger(r.at) ELSE anchor,
         pollTime |-> IF r.success THEN tDone ELSE pollTime]

\* the scan keeps the first sample above zero it meets from the oldest end
findLastAboveZero_oldest(h, tNow) ==
    LET startTime == tNow - HistoryWindowSecs
        above == {k \in 1 .. Len(h.series) : h.series[k].temp > 0}
    IN  IF ~h.begin THEN tNow
        ELSE IF h.code = HTTP_CODE_OK /\ h.json
             THEN IF above = {} THEN startTime
                  ELSE MkTime(h.series[CHOOSE k \in above :
                                         \A m \in above : k <= m].stamp)
             ELSE tNow

\* WeatherPollingTimer::findLastAboveZero; tNow is time(nullptr) on entry
findLastAboveZero(h, tNow) ==
    LET startTime == tNow - HistoryWindowSecs
        above == {k \in 1 .. Len(h.series) : h.series[k].temp > 0}
    IN  IF ~h.begin THEN tNow
        ELSE IF h.code = HTTP_CODE_OK /\ h.json
             THEN IF above = {} THEN startTime
                  ELSE MkTime(h.series[CHOOSE k \in above :
                                         \A m \in above : m <= k].stamp)
             ELSE tNow

(***************************************************************************)
(* TimerDisplay: the pure parts.                                           *)
(***************************************************************************)
nextTimer_noWrap(idx) == ToUint8(idx + 1)

\* TimerDisplay::nextTimer
nextTimer(idx) == ToUint8(CRem(idx + 1, timerCount))

\* TimerDisplay::previousTimer
previousTimer(idx) == ToUint8(CRem(idx - 1, timerCount))

Targets_any(idx) == TimerIds

\* timers[idx]: in range, the timer; out of range the read is undefined and
\* yields no timer (see Fault)
Targets(idx) == IF idx \in TimerIds THEN {idx} ELSE {}
MayFault(idx) == idx \notin TimerIds

buttonEdge_level(current, last) == current = LOW

\* the condition of TimerDisplay::checkButton: released-to-pressed
buttonEdge(current, last) == current = LOW /\ last = HIGH

(***************************************************************************)
(* The environment.  The wall clock never regresses; its offset from boot  *)
(* is a number of long steps (one poll interval of the answering service)  *)
(* plus a bounded drift.  In one run a single remote service answers;      *)
(* requests to the others are issued and fail.                             *)
(***************************************************************************)
LongStep == pollingInterval(upstream)
LongSteps(t) == (t - BootTime) \div LongStep
Skew(t) == (t - BootTime) % LongStep

\* the durations a blocking call may take from the clock value t
Durations(t) == {d \in 0 .. MaxPollSecs : Skew(t) + d <= MaxSkew}

\* the time arguments a direct caller passes when the clock reads t: a stale
\* one, one read a second ago, the current one, a future one
ArgTimes(t) == {BootTime, t - 1, t, t + LongStep}

\* the timer object is driven directly, not by setup() and loop()
Direct == pc \in {"unitNew", "unit", "idNew", "id"}

\* what the device meets: a refusal, or a well-formed answer; the other
\* failures and shapes of the body are met by a timer driven directly
DeviceFeedResponses ==
    {Resp(TRUE, TRUE, 404, TRUE, <<Item(TRUE, NewStamp)>>, FALSE, 0)}
    \cup {Resp(TRUE, TRUE, HTTP_CODE_OK, TRUE, <<Item(TRUE, s)>>, FALSE, 0) :
            s \in {OldStamp, NewStamp, BadStamp}}

DeviceWeatherResponses ==
    {Resp(TRUE, TRUE, 500, TRUE, <<>>, TRUE, 1)}
    \cup {Resp(TRUE, TRUE, HTTP_CODE_OK, TRUE, <<>>, TRUE, t) : t \in Temps}

ResponsesOf(i) ==
    IF i # upstream THEN {Unreachable}
    ELSE IF i = WEATHER
         THEN IF Direct THEN WeatherResponses ELSE DeviceWeatherResponses
         ELSE IF Direct THEN FeedResponses ELSE DeviceFeedResponses

HistResponsesNow ==
    IF upstream = WEATHER THEN HistResponses ELSE {HistUnreachable}

\* What the remote side offered, stated apart from the code that reads it:
\* the response carries a value the poller can extract.
RemoteOk(i, resp) ==
    /\ resp.wifi
    /\ resp.begin
    /\ resp.code = 200
    /\ resp.json
    /\ IF i = WEATHER
       THEN resp.hasTemp
       ELSE resp.items # <<>> /\ Head(resp.items).has /\ Head(resp.items).stamp.ok

\* snprintf(url, size, ...) of a string of total characters: the length of
\* what the buffer holds afterwards
snprintf(size, total) == IF total < size THEN total ELSE size - 1

\* pollImpl of the feed pollers: char url[..]; snprintf(url, sizeof(url), ...)
buildUrl(i, idLen) ==
    IF i = GITHUB THEN snprintf(GitHubUrlSize, GitHubUrlFormatLen + idLen)
    ELSE snprintf(BlueskyUrlSize, BlueskyUrlFormatLen + idLen)

(***************************************************************************)
(* One check attempt: PollingTimer::poll on timer i, whose fields are      *)
(* anchor and pollTime when it starts.  The request blocks for d seconds;  *)
(* the threshold poller reads the clock once more, e seconds later, when   *)
(* poll() stores lastPollTime.                                             *)
(***************************************************************************)
AttemptWith(i, op, anchor, pollTime, idLen) ==
    \E resp \in ResponsesOf(i) : \E d \in Durations(clock) :
      \E e \in (IF i = WEATHER THEN Durations(clock + d) ELSE {0}) :
        LET tTrig == clock + d
            tDone == clock + d + e
            r == poll(i, anchor, pollTime, resp, tTrig, tDone)
        IN  /\ lastTriggerTime' = [lastTriggerTime EXCEPT ![i] = r.anchor]
            /\ lastPollTime' = [lastPollTime EXCEPT ![i] = r.pollTime]
            /\ clock' = tDone
            /\ att' = [Att(op, i, TRUE, resp, r.success, tTrig, tDone)
                         EXCEPT !.retry = retrying /\ op = "checkPoll",
                                !.url = IF i \in FeedIds /\ resp.wifi
                                        THEN buildUrl(i, idLen) ELSE 0]
            /\ since' = [since EXCEPT ![i] =
                            IF RemoteOk(i, resp) THEN tDone
                            ELSE IF op = "ctor" THEN pollTime ELSE @]
            /\ retrying' = IF RemoteOk(i, resp) THEN FALSE
                           ELSE IF op = "checkPoll" THEN TRUE ELSE retrying

\* a check attempt of a constructed timer: the URL is built from the buffer
Attempt(i, op, anchor, pollTime) ==
    AttemptWith(i, op, anchor, pollTime,
                IF i \in FeedIds THEN identity[i].held ELSE 0)

checkPoll_backoff(i, currentTime) ==
    IF shouldPoll(i, currentTime) /\ ~retrying
    THEN Attempt(i, "checkPoll", lastTriggerTime[i], lastPollTime[i])
    ELSE /\ att' = Att("checkPoll", i, FALSE, NoResp, FALSE, 0, 0)
         /\ retrying' = FALSE
         /\ UNCHANGED <<clock, lastTriggerTime, lastPollTime, since>>

\* PollingTimer::checkPoll
checkPoll(i, currentTime) ==
    IF shouldPoll(i, currentTime)
    THEN Attempt(i, "checkPoll", lastTriggerTime[i], lastPollTime[i])
    ELSE /\ att' = Att("checkPoll", i, FALSE, NoResp, FALSE, 0, 0)
         /\ retrying' = FALSE
         /\ UNCHANGED <<clock, lastTriggerTime, lastPollTime, since>>

handleButtonPress_stale(i, currentTime) ==
    IF i = BUTTON
    THEN /\ att' = Att("handleButtonPress", i, FALSE, NoResp, TRUE, 0, 0)
         /\ UNCHANGED <<clock, lastTriggerTime, lastPollTime, since, retrying>>
    ELSE Attempt(i, "handleButtonPress", lastTriggerTime[i], lastPollTime[i])

handleButtonPress_gated(i, currentTime) ==
    IF i = BUTTON
    THEN /\ lastTriggerTime' = [lastTriggerTime EXCEPT ![i] = trigger(currentTime)]
         /\ att' = Att("handleButtonPress", i, FALSE, NoResp, TRUE, 0, 0)
         /\ UNCHANGED <<clock, lastPollTime, since, retrying>>
    ELSE IF shouldPoll(i, currentTime)
         THEN Attempt(i, "handleButtonPress", lastTriggerTime[i], lastPollTime[i])
         ELSE /\ att' = Att("handleButtonPress", i, FALSE, NoResp, FALSE, 0, 0)
              /\ UNCHANGED <<clock, lastTriggerTime, lastPollTime, since, retrying>>

\* ButtonTimer::handleButtonPress / PollingTimer::handleButtonPress
handleButtonPress(i, currentTime) ==
    IF i = BUTTON
    THEN /\ lastTriggerTime' = [lastTriggerTime EXCEPT ![i] = trigger(currentTime)]
         /\ att' = Att("handleButtonPress", i, FALSE, NoResp, TRUE, 0, 0)
         /\ UNCHANGED <<clock, lastPollTime, since, retrying>>
    ELSE Attempt(i, "handleButtonPress", lastTriggerTime[i], lastPollTime[i])

(***************************************************************************)
(* The constructors.  nextPc is where control goes when the constructor    *)
(* returns; a constructor that throws ends the program.                    *)
(***************************************************************************)
\* ButtonTimer::ButtonTimer
ConstructButtonTimer(initialTime, nextPc) ==
    /\ lastTriggerTime' = [lastTriggerTime EXCEPT ![BUTTON] = initialTime]
    /\ pc' = nextPc
    /\ att' = NoAtt
    /\ UNCHANGED <<clock, lastPollTime, since, retrying, identity>>

\* GitHubPollingTimer::GitHubPollingTimer
ConstructGitHubTimer(usernameLen, initialTime, nextPc) ==
    IF usernameLen > MAX_USERNAME_LENGTH
    THEN /\ pc' = "aborted"
         /\ att' = NoAtt
         /\ identity' = [identity EXCEPT
                           ![GITHUB] = Identity(usernameLen, NoString)]
         /\ UNCHANGED <<clock, timerVars>>
    ELSE /\ identity' = [identity EXCEPT
                           ![GITHUB] = Identity(usernameLen, usernameLen)]
         /\ AttemptWith(GITHUB, "ctor", initialTime, initialTime, usernameLen)
         /\ pc' = nextPc

\* BlueskyPollingTimer::BlueskyPollingTimer: the length test reads the member
\* buffer before anything was copied into it, so the length it sees is
\* whatever the fresh object holds
ConstructBlueskyTimer(handleLen, initialTime, nextPc) ==
    \E garbageLen \in {0, handleLen, MAX_HANDLE_LENGTH + 1} :
      IF garbageLen > MAX_HANDLE_LENGTH
      THEN /\ pc' = "aborted"
           /\ att' = NoAtt
           /\ identity' = [identity EXCEPT
                             ![BLUESKY] = Identity(handleLen, NoString)]
           /\ UNCHANGED <<clock, timerVars>>
      ELSE IF handleLen > MAX_HANDLE_LENGTH
      THEN \* strcpy writes past the end of handle[]: the program faults, or
           \* goes on with the members behind the buffer overwritten, or goes
           \* on to the probe with the string cut at the last byte
           /\ identity' = [identity EXCEPT
                             ![BLUESKY] = Identity(handleLen, MAX_HANDLE_LENGTH)]
           /\ \/ /\ pc' \in {"crashed", "undefined"}
                 /\ att' = NoAtt
                 /\ UNCHANGED <<clock, timerVars>>
              \/ /\ AttemptWith(BLUESKY, "ctor", initialTime, initialTime,
                                MAX_HANDLE_LENGTH)
                 /\ pc' = nextPc
      ELSE /\ identity' = [identity EXCEPT
                             ![BLUESKY] = Identity(handleLen, handleLen)]
           /\ AttemptWith(BLUESKY, "ctor", initialTime, initialTime, handleLen)
           /\ pc' = nextPc

\* WeatherPollingTimer::WeatherPollingTimer
ConstructWeatherTimer(nextPc) ==
    /\ \E h \in HistResponsesNow : \E d \in Durations(clock) :
         /\ lastTriggerTime' = [lastTriggerTime EXCEPT
                                  ![WEATHER] = trigger(findLastAboveZero(h, clock))]
         /\ clock' = clock + d
         /\ att' = [NoAtt EXCEPT !.op = "backfill", !.timer = WEATHER,
                                 !.hist = h, !.trig = clock]
    /\ lastPollTime' = [lastPollTime EXCEPT ![WEATHER] = clock]
    /\ since' = [since EXCEPT ![WEATHER] = clock]
    /\ pc' = nextPc
    /\ UNCHANGED <<retrying, identity>>

\* a call through the wild pointer read from timers[idx], idx out of range:
\* either it faults and the control thread stops, or the program goes on in
\* a way the source does not determine, which is followed no further
Fault ==
    /\ pc' \in {"crashed", "undefined"}
    /\ att' = NoAtt
    /\ sample' = NoSample
    /\ UNCHANGED <<clock, timerVars, currentIndex, lastButtonState, downHeld,
                   lastName, lastSeconds>>

(***************************************************************************)
(* setup(): the constructors, in order.                                    *)
(***************************************************************************)
Blank ==
    /\ clock = BootTime
    /\ now = BootTime
    /\ lastTriggerTime = [i \in TimerIds |-> 0]
    /\ lastPollTime = [i \in PollingIds |-> 0]
    /\ lastButtonState = HIGH
    /\ att = NoAtt
    /\ identity = [i \in FeedIds |-> NoIdentity]
    /\ since = [i \in PollingIds |-> 0]
    /\ sample = NoSample
    /\ retrying = FALSE
    /\ downHeld = FALSE
    /\ lastName = ""
    /\ lastSeconds = -1
    /\ lcd = Lcd("Initializing...", BlankRow)
    /\ pins = NoSample

Init ==
    /\ Blank
    /\ pc = "new0"
    /\ currentIndex = 0
    /\ upstream \in PollingIds

\* new ButtonTimer("Last drank water", now)
NewButtonTimer ==
    /\ pc = "new0"
    /\ ConstructButtonTimer(now, "new1")
    /\ UNCHANGED <<now, currentIndex, lastButtonState, downHeld, sample, displayVars,
                   upstream, pins>>

\* new GitHubPollingTimer("Last GitHub push", "evjrob", 300, now)
NewGitHubTimer ==
    /\ pc = "new1"
    /\ ConstructGitHubTimer(GitHubUsernameLen, now, "new2")
    /\ UNCHANGED <<now, currentIndex, lastButtonState, downHeld, sample, displayVars,
                   upstream, pins>>

\* new BlueskyPollingTimer("Last Bsky post", "evjrob.bsky.social", 300, now)
NewBlueskyTimer ==
    /\ pc = "new2"
    /\ ConstructBlueskyTimer(BlueskyHandleLen, now, "new3")
    /\ UNCHANGED <<now, currentIndex, lastButtonState, downHeld, sample, displayVars,
                   upstream, pins>>

\* new WeatherPollingTimer("Last above 0 C", 49.8954f, -97.1385f, 900)
NewWeatherTimer ==
    /\ pc = "new3"
    /\ ConstructWeatherTimer("newDisplay")
    /\ UNCHANGED <<now, currentIndex, lastButtonState, downHeld, sample, displayVars,
                   upstream, pins>>

\* new TimerDisplay(timerArray, 4, ACTION_BUTTON, lcd); setup() returns and
\* its local `now` is gone
NewTimerDisplay ==
    /\ pc = "newDisplay"
    /\ currentIndex' = 0
    /\ lastName' = ""
    /\ lastSeconds' = -1
    /\ pc' = "loop"
    /\ att' = NoAtt
    /\ now' = 0
    /\ UNCHANGED <<clock, timerVars, lastButtonState, downHeld, sample, lcd,
                   upstream, identity, pins>>

(***************************************************************************)
(* loop() and TimerDisplay::update, one call at a time.                    *)
(***************************************************************************)
\* loop() reads the clock; update() offers the selected timer its due check
Loop ==
    /\ pc = "loop"
    /\ now' = clock
    /\ UNCHANGED <<displayVars, upstream, identity, pins>>
    /\ \/ \E t \in Targets(currentIndex) :
            /\ IF isPollable(t)
               THEN checkPoll(t, clock)
               ELSE /\ att' = NoAtt
                    /\ retrying' = FALSE
                    /\ UNCHANGED <<clock, lastTriggerTime, lastPollTime, since>>
            /\ pc' = "checkButton"
            /\ sample' = NoSample
            /\ UNCHANGED <<currentIndex, lastButtonState, downHeld>>
       \/ /\ MayFault(currentIndex)
          /\ Fault

\* TimerDisplay::checkButton; level is what digitalRead returns
CheckButton ==
    /\ pc = "checkButton"
    /\ UNCHANGED <<now, currentIndex, downHeld, lastName, lastSeconds, upstream,
                   identity, pins>>
    /\ \E level \in BOOLEAN :
         IF buttonEdge(level, lastButtonState)
         THEN /\ lcd' = Lcd(lcd.top, PrintAt(lcd.bottom, 0, BlankRow))
              /\ \/ \E t \in Targets(currentIndex) :
                      /\ handleButtonPress(t, now)
                      /\ lastButtonState' = level
                      /\ sample' = Sampled(level, HIGH, HIGH)
                      /\ pc' = "updateDisplay"
                 \/ /\ MayFault(currentIndex)
                    /\ Fault
         ELSE /\ lastButtonState' = level
              /\ sample' = Sampled(level, HIGH, HIGH)
              /\ att' = NoAtt
              /\ pc' = "updateDisplay"
              /\ UNCHANGED <<clock, timerVars, lcd>>

needsRedraw_always(name, seconds) == TRUE

\* the outer condition of TimerDisplay::updateDisplay
needsRedraw(name, seconds) == name # lastName \/ seconds # lastSeconds

\* TimerDisplay::updateDisplay
UpdateDisplay ==
    /\ pc = "updateDisplay"
    /\ UNCHANGED <<now, upstream, identity, pins>>
    /\ \/ /\ \E t \in Targets(currentIndex) :
               \E seconds \in timeSince(lastTriggerTime[t], now) :
                 LET name == getDisplayName(t)
                     timeStr == formatElapsed(seconds)
                     relabel == name # lastName
                 IN  IF needsRedraw(name, seconds)
                     THEN /\ lcd' = Lcd(IF relabel THEN name ELSE lcd.top,
                                        PrintAt(IF relabel THEN BlankRow
                                                ELSE lcd.bottom,
                                                startPos(timeStr), timeStr))
                          /\ lastName' = name
                          /\ lastSeconds' = seconds
                          /\ att' = [NoAtt EXCEPT
                                       !.op = "updateDisplay", !.timer = t,
                                       !.seconds = seconds,
                                       !.drew = IF relabel
                                                THEN {"clear", "label", "elapsed"}
                                                ELSE {"elapsed"}]
                     ELSE /\ att' = [NoAtt EXCEPT
                                       !.op = "updateDisplay", !.timer = t,
                                       !.seconds = seconds]
                          /\ UNCHANGED displayVars
          /\ pc' = "checkNav"
          /\ sample' = NoSample
          /\ UNCHANGED <<clock, timerVars, currentIndex, lastButtonState, downHeld>>
       \/ /\ MayFault(currentIndex)
          /\ Fault
          /\ UNCHANGED lcd

\* TimerDisplay::checkNavigationButtons; down and up are the levels read.
\* update() and loop() return: the local `now` of loop() is gone.
CheckNavigationButtons ==
    /\ pc = "checkNav"
    /\ \E down \in BOOLEAN : \E up \in BOOLEAN :
         /\ currentIndex' =
              LET afterDown == IF down = LOW THEN nextTimer(currentIndex)
                               ELSE currentIndex
              IN  IF up = LOW THEN previousTimer(afterDown) ELSE afterDown
         /\ sample' = Sampled(HIGH, down, up)
         /\ downHeld' = (down = LOW)
    /\ retrying' = IF currentIndex' = currentIndex THEN retrying ELSE FALSE
    /\ pc' = "loop"
    /\ att' = NoAtt
    /\ now' = 0
    /\ UNCHANGED <<clock, lastTriggerTime, lastPollTime, since,
                   lastButtonState, displayVars, upstream, identity, pins>>

\* the wall clock moves on by a second between two calls
TockSecond ==
    /\ pc \in {"loop", "unit", "id"}
    /\ Skew(clock) < MaxSkew
    /\ clock' = clock + 1
    /\ att' = NoAtt
    /\ UNCHANGED <<pc, now, timerVars, currentIndex, lastButtonState, downHeld,
                   sample, displayVars,
                   upstream, identity, pins>>

\* the wall clock moves on by a poll interval between two calls
TockInterval ==
    /\ pc \in {"loop", "unit", "id"}
    /\ LongSteps(clock) < MaxIntervals
    /\ clock' = clock + LongStep
    /\ att' = NoAtt
    /\ UNCHANGED <<pc, now, timerVars, currentIndex, lastButtonState, downHeld,
                   sample, displayVars,
                   upstream, identity, pins>>

Next ==
    \/ NewButtonTimer
    \/ NewGitHubTimer
    \/ NewBlueskyTimer
    \/ NewWeatherTimer
    \/ NewTimerDisplay
    \/ Loop
    \/ CheckButton
    \/ UpdateDisplay
    \/ CheckNavigationButtons
    \/ TockSecond
    \/ TockInterval

\* the device: setup(), then loop() for ever
Spec == Init /\ [][Next]_vars

(***************************************************************************)
(* One timer object driven directly: it is constructed, and then its       *)
(* checkPoll and handleButtonPress are called with any time argument.      *)
(* currentIndex names the object.                                          *)
(***************************************************************************)
UnitInit ==
    /\ Blank
    /\ pc = "unitNew"
    /\ currentIndex \in TimerIds
    /\ upstream = IF currentIndex \in PollingIds THEN currentIndex ELSE GITHUB

UnitConstruct ==
    /\ pc = "unitNew"
    /\ CASE currentIndex = BUTTON -> ConstructButtonTimer(now, "unit")
         [] currentIndex = GITHUB ->
              ConstructGitHubTimer(GitHubUsernameLen, now, "unit")
         [] currentIndex = BLUESKY ->
              ConstructBlueskyTimer(BlueskyHandleLen, now, "unit")
         [] currentIndex = WEATHER -> ConstructWeatherTimer("unit")
    /\ UNCHANGED <<now, currentIndex, lastButtonState, downHeld, sample, displayVars,
                   upstream, pins>>

UnitCheckPoll ==
    /\ pc = "unit"
    /\ isPollable(currentIndex)
    /\ \E t \in ArgTimes(clock) :
         /\ now' = t
         /\ checkPoll(currentIndex, t)
    /\ UNCHANGED <<pc, currentIndex, lastButtonState, downHeld, sample, displayVars,
                   upstream, identity, pins>>

UnitHandleButtonPress ==
    /\ pc = "unit"
    /\ \E t \in ArgTimes(clock) :
         /\ now' = t
         /\ handleButtonPress(currentIndex, t)
    /\ UNCHANGED <<pc, currentIndex, lastButtonState, downHeld, sample, displayVars,
                   upstream, identity, pins>>

\* Timer::timeSince called directly
UnitTimeSince ==
    /\ pc = "unit"
    /\ \E t \in ArgTimes(clock) :
         \E seconds \in timeSince(lastTriggerTime[currentIndex], t) :
           /\ now' = t
           /\ att' = [NoAtt EXCEPT !.op = "timeSince", !.timer = currentIndex,
                                   !.seconds = seconds]
    /\ UNCHANGED <<clock, pc, timerVars, currentIndex, lastButtonState, downHeld,
                   sample, displayVars, upstream, identity, pins>>

UnitNext ==
    \/ UnitConstruct
    \/ UnitCheckPoll
    \/ UnitHandleButtonPress
    \/ UnitTimeSince
    \/ TockSecond
    \/ TockInterval

SpecUnit == UnitInit /\ [][UnitNext]_vars

(***************************************************************************)
(* One event-feed poller constructed with an identity string of any length *)
(* and then asked for forced checks.                                       *)
(***************************************************************************)
\* the lengths tried: the configured string, the longest whose URL fits the
\* URL buffer and the next, the longest the length test admits and the next
IdentityLens(i) ==
    IF i = GITHUB
    THEN {GitHubUsernameLen, MAX_USERNAME_LENGTH, MAX_USERNAME_LENGTH + 1}
    ELSE {BlueskyHandleLen,
          BlueskyUrlSize - 1 - BlueskyUrlFormatLen,
          BlueskyUrlSize - BlueskyUrlFormatLen,
          MAX_HANDLE_LENGTH, MAX_HANDLE_LENGTH + 1}

IdInit ==
    /\ Blank
    /\ pc = "idNew"
    /\ currentIndex \in FeedIds
    /\ upstream = currentIndex

IdConstruct ==
    /\ pc = "idNew"
    /\ \E len \in IdentityLens(currentIndex) :
         IF currentIndex = GITHUB
         THEN ConstructGitHubTimer(len, now, "id")
         ELSE ConstructBlueskyTimer(len, now, "id")
    /\ UNCHANGED <<now, currentIndex, lastButtonState, downHeld, sample, displayVars,
                   upstream, pins>>

IdForcedCheck ==
    /\ pc = "id"
    /\ now' = clock
    /\ handleButtonPress(currentIndex, clock)
    /\ UNCHANGED <<pc, currentIndex, lastButtonState, downHeld, sample, displayVars,
                   upstream, identity, pins>>

IdNext ==
    \/ IdConstruct
    \/ IdForcedCheck
    \/ TockSecond
    \/ TockInterval

SpecIdentity == IdInit /\ [][IdNext]_vars

(***************************************************************************)
(* The device with a check attempt in two steps, the request going out and *)
(* poll() returning, and with the levels of the action and DOWN pins kept  *)
(* between the reads: the buttons are pressed and released at any moment,  *)
(* digitalRead returns the level of that moment.  UP stays released, and   *)
(* the activity feed is the service that answers.                          *)
(***************************************************************************)
FlightInit == Init /\ upstream = GITHUB

blocks_async(op) == FALSE

\* http.GET() returns when the response is in or the timeout has passed:
\* the caller waits
blocks(op) == TRUE

\* the record of an attempt whose request is out
Pending(op, i, resume) ==
    [NoAtt EXCEPT !.op = op, !.timer = i, !.pending = TRUE, !.resume = resume]

\* where control is while the request of op is out
flightPc(op, resume) == IF blocks(op) THEN "inFlight" ELSE resume

\* a button is pressed or released
PinChange ==
    /\ pc \in {"loop", "inFlight"}
    /\ \E p \in {"action", "down"} :
         /\ pins' = [pins EXCEPT ![p] = ~@]
         /\ att' = IF att.pending /\ p = "action"
                   THEN [att EXCEPT !.pulse =
                           IF pins[p] = HIGH /\ @ = "none" THEN "down"
                           ELSE IF pins[p] = LOW /\ @ = "down" THEN "done"
                           ELSE @]
                   ELSE att
    /\ UNCHANGED <<clock, pc, now, timerVars, currentIndex, lastButtonState,
                   downHeld, sample, displayVars, upstream, identity>>

\* update(): no check is due for the selected timer
LoopIdle == Loop /\ ~att'.made

\* update(): the due check of the selected timer sends its request
LoopBegin ==
    /\ pc = "loop"
    /\ currentIndex \in PollingIds
    /\ shouldPoll(currentIndex, clock)
    /\ now' = clock
    /\ att' = Pending("checkPoll", currentIndex, "checkButton")
    /\ pc' = flightPc("checkPoll", "checkButton")
    /\ sample' = NoSample
    /\ UNCHANGED <<clock, timerVars, currentIndex, lastButtonState, downHeld,
                   displayVars, upstream, identity, pins>>

\* checkButton: no press edge, or the press is delivered to the manual timer
CheckButtonIdle == CheckButton /\ ~att'.made /\ sample'.action = pins.action

\* checkButton: a press edge on a polling timer; the row is blanked and the
\* forced check sends its request
CheckButtonBegin ==
    /\ pc = "checkButton"
    /\ buttonEdge(pins.action, lastButtonState)
    /\ currentIndex \in PollingIds
    /\ lcd' = Lcd(lcd.top, PrintAt(lcd.bottom, 0, BlankRow))
    /\ sample' = Sampled(pins.action, HIGH, HIGH)
    /\ att' = Pending("handleButtonPress", currentIndex, "updateDisplay")
    /\ pc' = flightPc("handleButtonPress", "updateDisplay")
    /\ UNCHANGED <<clock, now, timerVars, currentIndex, lastButtonState, downHeld,
                   lastName, lastSeconds, upstream, identity, pins>>

\* poll() returns to checkPoll or handleButtonPress, and these to update()
\* or to checkButton, which stores the level it had read
FlightComplete ==
    /\ pc = "inFlight"
    /\ att.pending
    /\ Attempt(att.timer, att.op, lastTriggerTime[att.timer],
               lastPollTime[att.timer])
    /\ pc' = att.resume
    /\ lastButtonState' = IF att.op = "handleButtonPress" THEN sample.action
                          ELSE lastButtonState
    /\ UNCHANGED <<now, currentIndex, downHeld, sample, displayVars, upstream,
                   identity, pins>>

\* checkNavigationButtons reading the pins
CheckNavigationButtonsWired ==
    /\ CheckNavigationButtons
    /\ sample'.down = pins.down
    /\ sample'.up = pins.up

FlightNext ==
    \/ NewButtonTimer
    \/ NewGitHubTimer
    \/ NewBlueskyTimer
    \/ NewWeatherTimer
    \/ NewTimerDisplay
    \/ LoopIdle
    \/ LoopBegin
    \/ CheckButtonIdle
    \/ CheckButtonBegin
    \/ FlightComplete
    \/ UpdateDisplay
    \/ CheckNavigationButtonsWired
    \/ PinChange
    \/ TockInterval

SpecFlight == FlightInit /\ [][FlightNext]_vars

(***************************************************************************)
(* Properties.                                                             *)
(***************************************************************************)
\* the epoch of a feed timestamp, from the calendar and not from MkTime
EpochOf(st) ==
    CASE st = OldStamp -> 1704067199
      [] st = NewStamp -> 1704110850
      [] st = BootStamp -> 1704110400
      [] st = HistOld -> 1701950400
      [] st = HistNew -> 1703678400
      [] st = AncientStamp -> 0 - 631152000

Running == pc \in {"loop", "checkButton", "updateDisplay", "checkNav"}

\* C1: with N timers, next and previous wrap around and the selected index
\* stays in [0, N) after any sequence of navigation operations, so every
\* access to the selected timer is inside the timer collection.
C1_SelectedIndexInRange == Running => currentIndex \in 0 .. (timerCount - 1)

\* C2: a check attempt that meets a failure (no transport, request not
\* issued, status other than 200, undecodable body, missing field,
\* unparsable timestamp), started by checkPoll or by handleButtonPress,
\* returns false and leaves lastTriggerTime and lastPollTime as they were; a
\* failed probe in a constructor leaves both at the initial time.
C2_FailedCheckChangesNothing ==
    [][(att'.made /\ ~RemoteOk(att'.timer, att'.resp)) =>
         /\ att'.ret = FALSE
         /\ IF att'.op = "ctor"
            THEN /\ lastTriggerTime'[att'.timer] = now
                 /\ lastPollTime'[att'.timer] = now
            ELSE /\ lastTriggerTime' = lastTriggerTime
                 /\ lastPollTime' = lastPollTime]_vars

\* a forced check fails on an unparsable timestamp after an earlier check of
\* the same timer had succeeded
C2_Witness ==
    /\ att.made
    /\ att.op = "handleButtonPress"
    /\ att.timer \in FeedIds
    /\ att.resp.code = 200 /\ att.resp.json
    /\ att.resp.items # <<>> /\ ~Head(att.resp.items).stamp.ok
    /\ ~att.ret
    /\ lastPollTime[att.timer] > BootTime
    /\ att.done > lastPollTime[att.timer]

\* C3: once a polling timer is constructed its lastPollTime changes only in
\* a successful check attempt, and after a successful attempt (the
\* constructor's probe included) it is the wall-clock time read when the
\* attempt completed, whatever time argument the caller passed.
C3_PollTimeIsCompletionTime ==
    [][/\ \A i \in PollingIds \cap Constructed :
            lastPollTime'[i] # lastPollTime[i] =>
              att'.made /\ att'.timer = i /\ RemoteOk(i, att'.resp)
       /\ (att'.made /\ RemoteOk(att'.timer, att'.resp)) =>
            /\ att'.ret = TRUE
            /\ lastPollTime'[att'.timer] = att'.done
            /\ att'.done = clock']_vars

\* a due check succeeded and completed later than the time it was given
C3_Witness ==
    /\ att.made
    /\ att.op = "checkPoll"
    /\ RemoteOk(att.timer, att.resp)
    /\ lastPollTime[att.timer] = att.done
    /\ att.done > now

\* C4: checkPoll(now) makes a check attempt exactly when
\* now - lastPollTime >= pollingInterval; otherwise it returns false, makes
\* no request and changes no field of the timer.
C4_IntervalGate ==
    [][att'.op = "checkPoll" =>
         /\ att'.made <=>
              (now' - lastPollTime[att'.timer] >= pollingInterval(att'.timer))
         /\ ~att'.made =>
              /\ att'.ret = FALSE
              /\ clock' = clock
              /\ lastTriggerTime' = lastTriggerTime
              /\ lastPollTime' = lastPollTime]_vars

\* checkPoll was called one second before the interval had elapsed, after an
\* earlier success, and did nothing
C4_Witness ==
    /\ att.op = "checkPoll"
    /\ ~att.made
    /\ lastPollTime[att.timer] > BootTime
    /\ now - lastPollTime[att.timer] = pollingInterval(att.timer) - 1

\* C5: in every tick that has a polling timer selected, the due check makes
\* an attempt exactly when a full interval has passed since the timer was
\* built or last succeeded; a failed attempt returns false and moves that
\* moment not at all, so the tick after a failed due check attempts again.
C5_NoBackoff ==
    [][(pc = "loop" /\ pc' = "checkButton" /\ currentIndex \in PollingIds) =>
         /\ att'.op = "checkPoll" /\ att'.timer = currentIndex
         /\ att'.made <=>
              (now' - since[currentIndex] >= pollingInterval(currentIndex))
         /\ retrying => att'.made
         /\ (att'.made /\ ~RemoteOk(currentIndex, att'.resp)) =>
              att'.ret = FALSE /\ since' = since]_vars

\* the due check of the selected timer failed in one tick and was made
\* again, and failed again, in the tick after it
C5_Witness ==
    /\ pc = "checkButton"
    /\ att.op = "checkPoll"
    /\ att.made
    /\ att.retry
    /\ ~RemoteOk(att.timer, att.resp)
    /\ retrying

\* C6 as stated: no timer's anchor ever moves to an earlier value.
C6_AnchorNeverDecreases ==
    [][\A i \in Constructed : lastTriggerTime'[i] >= lastTriggerTime[i]]_vars

\* C6 as amended: the anchor of the manual timer and of the threshold poller
\* never moves to an earlier value; the anchor of an event-feed poller moves
\* only in a successful check, to the timestamp of the first feed item.
C6_AnchorMonotoneExceptFeeds ==
    [][/\ \A i \in Constructed \cap {BUTTON, WEATHER} :
            lastTriggerTime'[i] >= lastTriggerTime[i]
       /\ \A i \in Constructed \cap FeedIds :
            lastTriggerTime'[i] # lastTriggerTime[i] =>
              /\ att'.made /\ att'.timer = i /\ RemoteOk(i, att'.resp)
              /\ lastTriggerTime'[i] = EpochOf(Head(att'.resp.items).stamp)]_vars

\* a periodic check of the threshold poller moved its anchor forward from a
\* backfilled value
C6_Witness ==
    /\ Running
    /\ att.made
    /\ att.timer = WEATHER
    /\ att.op = "checkPoll"
    /\ lastTriggerTime[WEATHER] = att.trig
    /\ lastTriggerTime[BUTTON] > BootTime

\* C7: a tick delivers handleButtonPress exactly when it reads the action
\* button LOW and the tick before read it HIGH (the first tick of a press),
\* so once per run of ticks that read it LOW however long the run, and never
\* in a tick that reads it HIGH.
C7_ActionEdgeOnce ==
    [][(pc = "checkButton" /\ pc' = "updateDisplay") =>
         /\ lastButtonState' = sample'.action
         /\ (att'.op = "handleButtonPress") <=>
              (sample'.action = LOW /\ lastButtonState = HIGH)]_vars

\* a tick read the action button LOW while it was still held from the tick
\* before, and delivered nothing
C7_Witness ==
    /\ pc = "updateDisplay"
    /\ sample.action = LOW
    /\ att.op = "none"

\* C8: a press of the DOWN button advances the selected index by one step at
\* the tick that first reads it LOW, and the index stays where it is while
\* the button is merely still held (UP released throughout).
C8_NavMovesOncePerPress ==
    [][(pc = "checkNav" /\ pc' = "loop" /\ sample'.up = HIGH) =>
         currentIndex' =
           IF sample'.down = LOW /\ ~downHeld
           THEN (currentIndex + 1) % timerCount
           ELSE currentIndex]_vars

\* C9: a successful check of an event-feed poller returns true and leaves the
\* anchor at the epoch of the first item's timestamp, whatever the wall time
\* and whatever items follow.
C9_FeedAnchorIsFirstItemEpoch ==
    (att.made /\ att.timer \in FeedIds /\ RemoteOk(att.timer, att.resp)) =>
      /\ att.ret = TRUE
      /\ lastTriggerTime[att.timer] = EpochOf(Head(att.resp.items).stamp)

\* a check read a feed whose first item is older than its second
C9_Witness ==
    /\ att.made
    /\ att.op = "checkPoll"
    /\ att.timer \in FeedIds
    /\ att.resp.code = 200 /\ att.resp.json
    /\ Len(att.resp.items) = 2
    /\ att.resp.items[1].stamp = OldStamp
    /\ att.resp.items[2].stamp = NewStamp
    /\ lastTriggerTime[att.timer] = 1704067199
    /\ att.done > 1704067199

\* C10: a check of the threshold poller that gets a parseable value returns
\* true and sets lastPollTime to its completion time whatever the value; a
\* value above 0 moves the anchor to the wall time read during the check, a
\* value of 0 or less leaves the anchor as it was.
C10_ThresholdCheck ==
    [][(att'.made /\ att'.timer = WEATHER /\ RemoteOk(WEATHER, att'.resp)) =>
         /\ att'.ret = TRUE
         /\ lastPollTime'[WEATHER] = att'.done
         /\ IF att'.resp.temp > 0
            THEN /\ lastTriggerTime'[WEATHER] = att'.trig
                 /\ clock <= att'.trig /\ att'.trig <= clock'
            ELSE lastTriggerTime'[WEATHER] = lastTriggerTime[WEATHER]]_vars

\* a due check read exactly 0 degrees: poll success, anchor untouched
C10_Witness ==
    /\ att.made
    /\ att.op = "checkPoll"
    /\ att.timer = WEATHER
    /\ att.resp.hasTemp /\ att.resp.temp = 0
    /\ att.ret
    /\ lastPollTime[WEATHER] = att.done
    /\ lastTriggerTime[WEATHER] < BootTime

\* C11: when the historical series is received and decoded, the threshold
\* poller starts with its anchor at the timestamp of the most recent sample
\* whose value is above 0, and at the start of the 30-day window (the time
\* read on entry less 2592000 seconds) when no sample is above 0.
C11_BackfillAnchor ==
    (att.op = "backfill" /\ att.hist.begin /\ att.hist.code = 200
       /\ att.hist.json) =>
      LET ser == att.hist.series
          warm == {k \in DOMAIN ser : ser[k].temp > 0}
      IN  /\ warm = {} => lastTriggerTime[WEATHER] = att.trig - 2592000
          /\ \A k \in warm :
               (\A m \in warm : m <= k) =>
                 lastTriggerTime[WEATHER] = EpochOf(ser[k].stamp)

\* the series has a sample above 0 followed by a later one that is not
C11_Witness ==
    /\ att.op = "backfill"
    /\ att.hist.begin /\ att.hist.code = 200 /\ att.hist.json
    /\ Len(att.hist.series) = 2
    /\ att.hist.series[1].temp > 0
    /\ att.hist.series[2].temp <= 0
    /\ lastTriggerTime[WEATHER] = 1701950400

\* C12 as stated: handleButtonPress on a polling timer makes a check attempt
\* whatever the interval gate says, and returns true exactly when the attempt
\* changed the anchor.
C12_ForcedCheckReturnsAnchorChanged ==
    [][(att'.op = "handleButtonPress" /\ att'.timer \in PollingIds) =>
         /\ att'.made
         /\ att'.ret <=>
              (lastTriggerTime'[att'.timer] # lastTriggerTime[att'.timer])]_vars

\* C12 as amended: handleButtonPress on a polling timer makes a check attempt
\* whatever the interval gate says, and returns true exactly when the attempt
\* succeeded, in which case lastPollTime is its completion time; the anchor
\* may or may not have changed.
C12_ForcedCheckReturnsSuccess ==
    [][(att'.op = "handleButtonPress" /\ att'.timer \in PollingIds) =>
         /\ att'.made
         /\ att'.ret <=> RemoteOk(att'.timer, att'.resp)
         /\ att'.ret => lastPollTime'[att'.timer] = att'.done
         /\ ~att'.ret => lastPollTime' = lastPollTime]_vars

\* less than one interval after boot a forced check of the threshold poller
\* read a value not above 0: it returned true and the anchor stayed
C12_Witness ==
    /\ att.op = "handleButtonPress"
    /\ att.timer = WEATHER
    /\ att.made
    /\ att.ret
    /\ att.resp.temp <= 0
    /\ att.done - BootTime < pollingInterval(WEATHER)
    /\ lastTriggerTime[WEATHER] < BootTime

\* C13: handleButtonPress on the manual timer sets its anchor to the time it
\* is given and returns true, so timeSince of that time is 0; and no other
\* step of the tick loop (due check, navigation, rendering, a check of
\* another timer) changes the manual timer's anchor.
C13_ManualReset ==
    [][/\ (att'.op = "handleButtonPress" /\ att'.timer = BUTTON) =>
            /\ lastTriggerTime'[BUTTON] = now'
            /\ att'.ret
            /\ timeSince(lastTriggerTime'[BUTTON], now') = {0}
       /\ (BUTTON \in Constructed
             /\ lastTriggerTime'[BUTTON] # lastTriggerTime[BUTTON]) =>
            (att'.op = "handleButtonPress" /\ att'.timer = BUTTON)]_vars

\* the manual timer, selected, was reset by a press later than boot
C13_Witness ==
    /\ pc = "updateDisplay"
    /\ currentIndex = BUTTON
    /\ att.op = "handleButtonPress"
    /\ att.timer = BUTTON
    /\ lastTriggerTime[BUTTON] = now
    /\ now > BootTime

\* C14: while the selected index names a timer, no step of the tick loop
\* changes lastTriggerTime or lastPollTime of any other timer, and every
\* check attempt made is an attempt of the selected timer, also when another
\* timer's interval has long passed.
C14_OnlySelectedTimerTouched ==
    [][(Running /\ currentIndex \in TimerIds) =>
         /\ \A i \in TimerIds \ {currentIndex} :
              /\ lastTriggerTime'[i] = lastTriggerTime[i]
              /\ i \in PollingIds => lastPollTime'[i] = lastPollTime[i]
         /\ att'.op \in {"checkPoll", "handleButtonPress"} =>
              att'.timer = currentIndex]_vars

\* a due check of the selected timer was attempted in a tick in which the
\* interval of another polling timer had passed as well
C14_Witness ==
    /\ pc = "checkButton"
    /\ currentIndex = GITHUB
    /\ att.op = "checkPoll" /\ att.made /\ att.timer = GITHUB
    /\ now - lastPollTime[BLUESKY] >= pollingInterval(BLUESKY)

\* C15: updateDisplay rewrites the label line, after clearing the display,
\* exactly when the selected timer's label is not the label on the display;
\* it rewrites the elapsed line exactly when the formatted elapsed time is
\* not the formatted value rendered last or the label was rewritten; a tick
\* with the same selection and the same formatted value writes nothing.
C15_RedrawMinimized ==
    [][(pc = "updateDisplay" /\ pc' = "checkNav") =>
         LET relabelled == "label" \in att'.drew
         IN  /\ relabelled <=> (getDisplayName(currentIndex) # lcd.top)
             /\ ("clear" \in att'.drew) <=> relabelled
             /\ ("elapsed" \in att'.drew) <=>
                  (relabelled
                     \/ formatElapsed(att'.seconds) # formatElapsed(lastSeconds))
             /\ ~relabelled => lcd'.top = lcd.top
             /\ att'.drew = {} => lcd' = lcd]_vars

\* a tick rendered the selection and elapsed value of the tick before it and
\* wrote nothing
C15_Witness ==
    /\ pc = "checkNav"
    /\ att.op = "updateDisplay"
    /\ att.drew = {}
    /\ lastName = getDisplayName(currentIndex)
    /\ lastSeconds = att.seconds
    /\ lcd.bottom # BlankRow

\* C19: at the end of every tick the elapsed line of the display is exactly
\* the right-justified formatted elapsed time computed for the selected timer
\* in that tick (blank columns to its left, no leftover characters), and the
\* cached last-rendered value is the value on the screen.
C19_DisplayCoherent ==
    (pc = "checkNav" /\ att.op = "updateDisplay") =>
        LET timeStr == formatElapsed(att.seconds)
        IN  /\ lcd.bottom = PrintAt(BlankRow, startPos(timeStr), timeStr)
            /\ lastSeconds = att.seconds

\* diff = a - b, computed on 16-bit limbs so that no intermediate value
\* leaves the range of the checker's integers
IsDifference(diff, a, b) ==
    LET limb == 65536
        hi == (a \div limb) - (b \div limb) - (diff \div limb)
        lo == (a % limb) - (b % limb) - (diff % limb)
    IN  lo % limb = 0 /\ hi + (lo \div limb) = 0

\* C17: whenever timeSince is called with now >= lastTriggerTime, the value
\* it returns is now - lastTriggerTime exactly, for every anchor a timer holds.
C17_TimeSinceExact ==
    (att.op = "timeSince" /\ now >= lastTriggerTime[att.timer]) =>
        IsDifference(att.seconds, now, lastTriggerTime[att.timer])

\* the bound of the identity string of feed poller i
MaxIdentityLength(i) ==
    IF i = GITHUB THEN MAX_USERNAME_LENGTH ELSE MAX_HANDLE_LENGTH

\* C16: a feed poller's constructor aborts exactly when the identity string
\* it was given is longer than the bound (39 / 253 characters); when it
\* aborts nothing was copied into the buffer and no probe was made, and an
\* over-long string is never held by the buffer.
C16_OverlongIdentityAborts ==
    \A i \in FeedIds :
      identity[i].given # NoString =>
        /\ (identity[i].given > MaxIdentityLength(i)) <=> (pc = "aborted")
        /\ identity[i].given > MaxIdentityLength(i) =>
              /\ identity[i].held = NoString
              /\ lastPollTime[i] = 0
              /\ ~att.made

\* C20: in every check attempt of a feed poller whose identity string is
\* within the bound, the URL built holds the whole string and the whole
\* endpoint suffix: 36 / 89 fixed characters and the identity.
C20_UrlComplete ==
    (att.made /\ att.timer \in FeedIds /\ att.resp.wifi
       /\ identity[att.timer].given <= MaxIdentityLength(att.timer)) =>
        att.url =
          (IF att.timer = GITHUB THEN 36 ELSE 89) + identity[att.timer].given

\* C18: while a check attempt is in flight no button is read, the selected
\* index and the display stay as they are, and the only thing the program
\* does is complete the attempt; handleButtonPress is delivered, and the
\* index moves, only in a step outside the flight that finds the pin LOW at
\* that moment, so a press that began and ended within the flight does
\* nothing and a press still held is handled after the attempt completed.
C18_NoPreemption ==
    [][/\ att.pending =>
            /\ UNCHANGED <<currentIndex, lcd, lastName, lastSeconds, sample>>
            /\ att'.pending \/ (att'.made /\ att'.timer = att.timer)
            /\ att'.pending => UNCHANGED <<pc, lastButtonState, clock>>
       /\ (att'.op = "handleButtonPress" /\ att.op # "handleButtonPress") =>
            ~att.pending /\ pins.action = LOW
       /\ currentIndex' # currentIndex =>
            ~att.pending /\ pc = "checkNav" /\ pins.down = LOW]_vars

\* the action button was pressed and released again while the due check of
\* the selected timer was in flight
C18_Witness ==
    /\ pc = "inFlight"
    /\ att.pending
    /\ att.op = "checkPoll"
    /\ att.pulse = "done"
    /\ pins.action = HIGH
    /\ lastButtonState = HIGH
====
